---- MODULE Spec2Model ----
(***************************************************************************)
(* Schedula: appointment booking over a shared database (src/main.py).     *)
(*                                                                         *)
(* The database is the three tables patients, doctors, appointments.       *)
(* Every HTTP handler runs in a session of its own: one or more SELECTs    *)
(* followed, on the success path, by a commit.                             *)
(*                                                                         *)
(* No handler takes a lock and no table carries a uniqueness constraint    *)
(* beyond its primary key, so the handlers of concurrent requests          *)
(* interleave statement by statement: each SELECT and each commit is a     *)
(* step of the session that runs it.                                       *)
(*                                                                         *)
(*   Spec        two client sessions, any interleaving of their steps,     *)
(*               over the doctors table as migrate_doctors.py seeds it;    *)
(*   SpecSerial  the same steps under the schedule in which a request      *)
(*               starts only when no other is in progress.                 *)
(*                                                                         *)
(* Each handler is also written as an operator from a database and a       *)
(* request to the set of results it may produce when it runs with no       *)
(* other request's commit between its statements (the response and the     *)
(* database it leaves); the set has more than one element only where a     *)
(* `.first()` may pick among several rows.                                 *)
(***************************************************************************)
EXTENDS Integers, FiniteSets, Sequences, TLC

VARIABLES
    patients,       \* rows of table patients      (PatientDB)
    doctors,        \* rows of table doctors       (DoctorDB)
    appointments,   \* rows of table appointments  (AppointmentDB)
    pc,             \* the statement each session runs next
    loc             \* the local variables of each session's handler

vars == <<patients, doctors, appointments, pc, loc>>

\* The database as one value, as the handlers below take it.
DB == [patients |-> patients, doctors |-> doctors,
       appointments |-> appointments]

(***************************************************************************)
(* Bounds of the model.                                                    *)
(***************************************************************************)
MaxAppts == 2       \* rows the appointments table may grow to
MaxPatients == 2    \* rows the patients table may grow to

Procs == {"c1", "c2"}       \* concurrent client sessions

\* Request payloads are drawn from these sets.
PatientKeys ==
    { [name |-> "Asha Rao", dob |-> "1990-04-02"],
      [name |-> "Ben Iyer", dob |-> "1990-04-02"] }
Contacts == {"555-0100"}
DoctorInputs ==
    { [id |-> "doc1", name |-> "Dr Mehta"],
      [id |-> "doc2", name |-> "Dr Khan"] }
DoctorIds == {d.id : d \in DoctorInputs}
DoctorNames == {d.name : d \in DoctorInputs}
\* Doctor.timings: the default, and a list of one TimingSlot.
TimingsIn ==
    { <<>>,
      <<[day_of_week |-> "Monday", start_time |-> "09:00",
         end_time |-> "17:00"]>> }
Slots ==
    { [date |-> "2025-03-10", time |-> "09:00"],
      [date |-> "2025-03-11", time |-> "10:00"] }
Statuses == {"scheduled", "completed", "cancelled"}
NotesIn == {""}
\* Appointment ids a request may name: every id issued, and one never issued.
ApptIds == 1..(MaxAppts + 1)

(***************************************************************************)
(* Queries (the SELECT statements of the handlers) on a database db.       *)
(* `.first()` without ORDER BY returns any one matching row: the callers   *)
(* range over the rows returned here.                                      *)
(***************************************************************************)

\* db.query(PatientDB).filter(PatientDB.name == .., PatientDB.dob == ..)
PatientRows(db, name, dob) ==
    {r \in db.patients : r.name = name /\ r.dob = dob}

\* db.query(DoctorDB).filter(DoctorDB.id == ..)
DoctorRowsById(db, id) ==
    {r \in db.doctors : r.id = id}

\* db.query(DoctorDB).filter(DoctorDB.name == ..)
DoctorRowsByName(db, name) ==
    {r \in db.doctors : r.name = name}

\* db.query(AppointmentDB).filter(AppointmentDB.id == ..)
AppointmentRows(db, id) ==
    {a \in db.appointments : a.id = id}

\* Variant of BookConflictRows: cancelled rows count as occupying the slot.
BookConflictRowsAnyStatus(db, doctor_id, date, time) ==
    {a \in db.appointments :
        /\ a.doctor_id = doctor_id
        /\ a.date = date
        /\ a.time = time}

\* Variant of BookConflictRows: only "scheduled" rows occupy a slot.
BookConflictRowsScheduledOnly(db, doctor_id, date, time) ==
    {a \in db.appointments :
        /\ a.doctor_id = doctor_id
        /\ a.date = date
        /\ a.time = time
        /\ a.status = "scheduled"}

\* book_appointment's conflict query.
BookConflictRows(db, doctor_id, date, time) ==
    {a \in db.appointments :
        /\ a.doctor_id = doctor_id
        /\ a.date = date
        /\ a.time = time
        /\ a.status # "cancelled"}

\* Variant of RescheduleConflictRows: the moved appointment is not excluded.
RescheduleConflictRowsNoExclude(db, appointment_id, doctor_id, new_date, new_time) ==
    {a \in db.appointments :
        /\ a.doctor_id = doctor_id
        /\ a.date = new_date
        /\ a.time = new_time
        /\ a.status # "cancelled"}

\* Variant of RescheduleConflictRows: only "scheduled" rows occupy a slot.
RescheduleConflictRowsScheduledOnly(db, appointment_id, doctor_id, new_date, new_time) ==
    {a \in db.appointments :
        /\ a.doctor_id = doctor_id
        /\ a.date = new_date
        /\ a.time = new_time
        /\ a.id # appointment_id
        /\ a.status = "scheduled"}

\* Variant of RescheduleConflictRows: no row is a conflict.
RescheduleConflictRowsUnchecked(db, appointment_id, doctor_id, new_date, new_time) ==
    {a \in db.appointments : FALSE}

\* reschedule_appointment's conflict query.
RescheduleConflictRows(db, appointment_id, doctor_id, new_date, new_time) ==
    {a \in db.appointments :
        /\ a.doctor_id = doctor_id
        /\ a.date = new_date
        /\ a.time = new_time
        /\ a.id # appointment_id
        /\ a.status # "cancelled"}

\* Variant of DoctorAppointmentRows: rows of every status are returned.
DoctorAppointmentRowsAnyStatus(db, doctor_id, query_date) ==
    {a \in db.appointments :
        /\ a.doctor_id = doctor_id
        /\ a.date = query_date}

\* get_doctor_appointments' query.
DoctorAppointmentRows(db, doctor_id, query_date) ==
    {a \in db.appointments :
        /\ a.doctor_id = doctor_id
        /\ a.date = query_date
        /\ a.status # "cancelled"}

\* Variant of uuid4: one identifier for every row.
uuid4Constant(rows) == 1

\* str(uuid.uuid4()): an identifier no row of the table carries.  Rows of
\* patients and appointments are never deleted, so the row count plus one
\* is fresh.
uuid4(rows) == Cardinality(rows) + 1

(***************************************************************************)
(* Rows written by the handlers.                                           *)
(***************************************************************************)

\* PatientDB(id=patient.id, name=.., dob=.., contact=..)
NewPatientRow(id, name, dob, contact) ==
    [id |-> id, name |-> name, dob |-> dob, contact |-> contact]

\* DoctorDB(**doctor.model_dump()): of the columns, id and name are the ones
\* a handler reads.
NewDoctorRow(id, name) ==
    [id |-> id, name |-> name]

\* The JSON column `timings` is written with json.dumps: the empty list
\* serialises, a list of TimingSlot dumps holds datetime.time objects and
\* raises TypeError.
JsonSerializable(timings) ==
    timings = <<>>

\* AppointmentDB(id=.., patient_id=.., doctor_id=.., date=.., time=..,
\*               status=appointment_data.status, notes=..)
NewAppointmentRow(id, patient_id, doctor_id, date, time, status, notes) ==
    [id |-> id, patient_id |-> patient_id, doctor_id |-> doctor_id,
     date |-> date, time |-> time, status |-> status, notes |-> notes]

\* Variant of RescheduledRow: the move puts the appointment back to
\* "scheduled".
RescheduledRowReactivated(appt, new_date, new_time) ==
    [appt EXCEPT !.date = new_date, !.time = new_time,
                 !.status = "scheduled"]

\* Variant of RescheduledRow: the move is recorded in the notes.
RescheduledRowAnnotated(appt, new_date, new_time) ==
    [appt EXCEPT !.date = new_date, !.time = new_time,
                 !.notes = "rescheduled"]

\* appt.date = new_date; appt.time = new_time
RescheduledRow(appt, new_date, new_time) ==
    [appt EXCEPT !.date = new_date, !.time = new_time]

\* Variant of CancelledRow: the status is left as it was.
CancelledRowUnchanged(appt) ==
    appt

\* appt.status = "cancelled"
CancelledRow(appt) ==
    [appt EXCEPT !.status = "cancelled"]

\* db.add(row); db.commit() on table patients
InsertPatient(db, row) ==
    [db EXCEPT !.patients = @ \cup {row}]

\* db.add(row); db.commit() on table appointments
InsertAppointment(db, row) ==
    [db EXCEPT !.appointments = @ \cup {row}]

\* db.add(row); db.commit() on table doctors
InsertDoctor(db, row) ==
    [db EXCEPT !.doctors = @ \cup {row}]

\* Variant of DeleteDoctor: the doctor's appointments are deleted with the
\* doctor.
DeleteDoctorCascade(db, doctor_id) ==
    [db EXCEPT !.doctors = {d \in @ : d.id # doctor_id},
               !.appointments = {a \in @ : a.doctor_id # doctor_id}]

\* db.delete(doctor_to_remove); db.commit(): DELETE FROM doctors WHERE id =
\* doctor_id.
DeleteDoctor(db, doctor_id) ==
    [db EXCEPT !.doctors = {d \in @ : d.id # doctor_id}]

\* Variant of UpdateAppointment: the row is added beside the one it should
\* replace.
UpdateAppointmentKeepOld(db, row) ==
    [db EXCEPT !.appointments = @ \cup {row}]

\* db.commit() of a changed appointment: UPDATE appointments .. WHERE id =
\* row.id.  The row of that id is replaced.
UpdateAppointment(db, row) ==
    [db EXCEPT !.appointments = {a \in @ : a.id # row.id} \cup {row}]

(***************************************************************************)
(* The handlers.  A result is [out, db] plus what the response names: out  *)
(* is "ok" (HTTP 200), "NotFound" (404), "Conflict" (400 Patient/Doctor    *)
(* already exists), "SlotConflict" (400 Time slot already booked) or       *)
(* "error" (an exception other than HTTPException: 500).                  *)
(***************************************************************************)
Fail(db, out) == [out |-> out, id |-> 0, db |-> db]
Done(db, id) == [out |-> "ok", id |-> id, db |-> db]

\* POST /patients/register
register_patient(db, patient) ==
    IF PatientRows(db, patient.name, patient.dob) # {}
    THEN {Fail(db, "Conflict")}
    ELSE LET id == uuid4(db.patients)
         IN  {Done(InsertPatient(db, NewPatientRow(id, patient.name,
                                        patient.dob, patient.contact)), id)}

\* POST /doctors/add
add_doctor(db, doctor) ==
    IF DoctorRowsById(db, doctor.id) # {}
    THEN {Fail(db, "Conflict")}
    ELSE IF ~JsonSerializable(doctor.timings)
    THEN {Fail(db, "error")}
    ELSE {Done(InsertDoctor(db, NewDoctorRow(doctor.id, doctor.name)),
               doctor.id)}

\* DELETE /doctors/remove/{doctor_id}
remove_doctor(db, doctor_id) ==
    IF DoctorRowsById(db, doctor_id) = {}
    THEN {Fail(db, "NotFound")}
    ELSE {Done(DeleteDoctor(db, doctor_id), doctor_id)}

\* book_appointment from the conflict query on, for the rows resolved.
BookResolved(db, data, patient, doctor) ==
    IF BookConflictRows(db, doctor.id, data.date, data.time) # {}
    THEN Fail(db, "SlotConflict")
    ELSE LET id == uuid4(db.appointments)
         IN  Done(InsertAppointment(db,
                    NewAppointmentRow(id, patient.id, doctor.id, data.date,
                                      data.time, data.status, data.notes)),
                  id)

\* Variant of book_appointment: the conflict query runs before the patient
\* is resolved.
book_appointment_conflict_first(db, data) ==
    LET found == PatientRows(db, data.patient_name, data.patient_dob)
        named == DoctorRowsByName(db, data.doctor_name)
    IN  IF named = {} THEN {Fail(db, "NotFound")}
        ELSE UNION {
            IF BookConflictRows(db, doctor.id, data.date, data.time) # {}
            THEN {Fail(db, "SlotConflict")}
            ELSE IF found = {} THEN {Fail(db, "NotFound")}
            ELSE {BookResolved(db, data, patient, doctor) : patient \in found}
            : doctor \in named}

\* POST /appointments/book
book_appointment(db, data) ==
    LET found == PatientRows(db, data.patient_name, data.patient_dob)
        named == DoctorRowsByName(db, data.doctor_name)
    IN  IF found = {} THEN {Fail(db, "NotFound")}
        ELSE IF named = {} THEN {Fail(db, "NotFound")}
        ELSE {BookResolved(db, data, patient, doctor) :
                patient \in found, doctor \in named}

\* PUT /appointments/reschedule/{appointment_id}
reschedule_appointment(db, appointment_id, new_date, new_time) ==
    IF AppointmentRows(db, appointment_id) = {}
    THEN {Fail(db, "NotFound")}
    ELSE {IF RescheduleConflictRows(db, appointment_id, appt.doctor_id,
                                    new_date, new_time) # {}
          THEN Fail(db, "SlotConflict")
          ELSE Done(UpdateAppointment(db,
                        RescheduledRow(appt, new_date, new_time)),
                    appointment_id)
          : appt \in AppointmentRows(db, appointment_id)}

\* Variant of cancel_appointment: an appointment already cancelled is
\* answered as if it were absent.
cancel_appointment_once(db, appointment_id) ==
    {IF appt.status = "cancelled"
     THEN Fail(db, "NotFound")
     ELSE Done(UpdateAppointment(db, CancelledRow(appt)), appointment_id)
     : appt \in AppointmentRows(db, appointment_id)}
    \cup (IF AppointmentRows(db, appointment_id) = {}
          THEN {Fail(db, "NotFound")} ELSE {})

\* DELETE /appointments/cancel/{appointment_id}
cancel_appointment(db, appointment_id) ==
    IF AppointmentRows(db, appointment_id) # {}
    THEN {Done(UpdateAppointment(db, CancelledRow(appt)), appointment_id)
          : appt \in AppointmentRows(db, appointment_id)}
    ELSE {Fail(db, "NotFound")}

\* GET /appointments/doctor
get_doctor_appointments(db, doctor_name, query_date) ==
    IF DoctorRowsByName(db, doctor_name) = {}
    THEN {[out |-> "NotFound", rows |-> {}]}
    ELSE {[out |-> "ok",
           rows |-> DoctorAppointmentRows(db, doctor.id, query_date)]
          : doctor \in DoctorRowsByName(db, doctor_name)}

(***************************************************************************)
(* Requests.                                                               *)
(***************************************************************************)
PatientPayloads ==
    {[name |-> k.name, dob |-> k.dob, contact |-> c] :
        k \in PatientKeys, c \in Contacts}

DoctorPayloads ==
    {[id |-> d.id, name |-> d.name, timings |-> t] :
        d \in DoctorInputs, t \in TimingsIn}

BookPayloads ==
    {[patient_name |-> k.name, patient_dob |-> k.dob, doctor_name |-> dn,
      date |-> s.date, time |-> s.time, status |-> st, notes |-> n] :
        k \in PatientKeys, dn \in DoctorNames, s \in Slots,
        st \in Statuses, n \in NotesIn}

(***************************************************************************)
(* The sessions.  Each request gets a SessionLocal() of its own (get_db);  *)
(* under the database's default isolation every SELECT reads what is       *)
(* committed when it runs, so a step of a session is one SELECT (with the  *)
(* branch taken on its result) or one commit.  The payload fields are      *)
(* drawn where the handler first uses them.  A handler that raises returns *)
(* its session to idle, its transaction rolled back.  At a commit the      *)
(* session flushes what it changed on the objects it loaded: an UPDATE     *)
(* names the row by primary key and carries the columns whose assigned     *)
(* value differs from the value loaded, the other columns keep what is     *)
(* committed.                                                              *)
(***************************************************************************)
NoLoc == [op |-> "none"]

\* The tables after Base.metadata.create_all and migrate_doctors.py.
Init ==
    /\ patients = {}
    /\ doctors = DoctorInputs
    /\ appointments = {}
    /\ pc = [p \in Procs |-> "idle"]
    /\ loc = [p \in Procs |-> NoLoc]

\* Sessions whose next statement is `at`.
At(at) == {p \in Procs : pc[p] = at}

Goto(p, at, locals) ==
    /\ pc' = [pc EXCEPT ![p] = at]
    /\ loc' = [loc EXCEPT ![p] = locals]

Return(p) == Goto(p, "idle", NoLoc)

\* Write the tables of db.
Write(db) ==
    /\ patients' = db.patients
    /\ doctors' = db.doctors
    /\ appointments' = db.appointments

\* The row an UPDATE leaves for the reschedule of `appt`, the committed row,
\* by a session that loaded it with loaded_date and loaded_time.
RescheduleFlush(appt, loaded_date, loaded_time, new_date, new_time) ==
    [RescheduledRow(appt, new_date, new_time) EXCEPT
        !.date = IF new_date = loaded_date THEN appt.date ELSE @,
        !.time = IF new_time = loaded_time THEN appt.time ELSE @]

\* The row an UPDATE leaves for the cancellation of `appt`, the committed
\* row, by a session that loaded it with loaded_status.
CancelFlush(appt, loaded_status) ==
    IF loaded_status = "cancelled" THEN appt ELSE CancelledRow(appt)

\* register_patient: the `existing` query.
RegisterQuery(p) ==
    /\ pc[p] = "idle"
    /\ \E patient \in PatientPayloads :
        IF PatientRows(DB, patient.name, patient.dob) # {}
        THEN Return(p)
        ELSE /\ Cardinality(patients) + Cardinality(At("register_commit"))
                    < MaxPatients
             /\ Goto(p, "register_commit",
                     [op |-> "register", patient |-> patient])
    /\ UNCHANGED <<patients, doctors, appointments>>

\* register_patient: db.add(db_patient); db.commit()
RegisterCommit(p) ==
    /\ pc[p] = "register_commit"
    /\ Write(InsertPatient(DB,
            NewPatientRow(uuid4(patients), loc[p].patient.name,
                          loc[p].patient.dob, loc[p].patient.contact)))
    /\ Return(p)

\* add_doctor: the `existing` query.
AddDoctorQuery(p) ==
    /\ pc[p] = "idle"
    /\ \E doctor \in DoctorInputs :
        IF DoctorRowsById(DB, doctor.id) # {}
        THEN Return(p)
        ELSE Goto(p, "add_doctor_commit",
                  [op |-> "add_doctor", id |-> doctor.id,
                   name |-> doctor.name])
    /\ UNCHANGED <<patients, doctors, appointments>>

\* add_doctor: db.add(db_doctor); db.commit().  The flush raises TypeError
\* on timings that do not serialise, and the INSERT raises IntegrityError
\* when a row with the primary key has been committed since the query;
\* either way nothing is written.
AddDoctorCommit(p) ==
    /\ pc[p] = "add_doctor_commit"
    /\ \E timings \in TimingsIn :
        IF JsonSerializable(timings) /\ DoctorRowsById(DB, loc[p].id) = {}
        THEN Write(InsertDoctor(DB, NewDoctorRow(loc[p].id, loc[p].name)))
        ELSE UNCHANGED <<patients, doctors, appointments>>
    /\ Return(p)

\* remove_doctor: the query by id.
RemoveDoctorQuery(p) ==
    /\ pc[p] = "idle"
    /\ \E doctor_id \in DoctorIds :
        IF DoctorRowsById(DB, doctor_id) = {}
        THEN Return(p)
        ELSE Goto(p, "remove_doctor_commit",
                  [op |-> "remove_doctor", id |-> doctor_id])
    /\ UNCHANGED <<patients, doctors, appointments>>

\* remove_doctor: db.delete(doctor_to_remove); db.commit().  A DELETE that
\* matches no row any more is not an error.
RemoveDoctorCommit(p) ==
    /\ pc[p] = "remove_doctor_commit"
    /\ Write(DeleteDoctor(DB, loc[p].id))
    /\ Return(p)

\* book_appointment: the patient query.
BookPatientQuery(p) ==
    /\ pc[p] = "idle"
    /\ \E k \in PatientKeys :
        IF PatientRows(DB, k.name, k.dob) = {}
        THEN Return(p)
        ELSE \E patient \in PatientRows(DB, k.name, k.dob) :
                Goto(p, "book_doctor",
                     [op |-> "book", patient_id |-> patient.id])
    /\ UNCHANGED <<patients, doctors, appointments>>

\* book_appointment: the doctor query.
BookDoctorQuery(p) ==
    /\ pc[p] = "book_doctor"
    /\ \E doctor_name \in DoctorNames :
        IF DoctorRowsByName(DB, doctor_name) = {}
        THEN Return(p)
        ELSE \E doctor \in DoctorRowsByName(DB, doctor_name) :
                Goto(p, "book_conflict",
                     loc[p] @@ [doctor_id |-> doctor.id])
    /\ UNCHANGED <<patients, doctors, appointments>>

\* book_appointment: the conflict query.
BookConflictQuery(p) ==
    /\ pc[p] = "book_conflict"
    /\ \E s \in Slots :
        IF BookConflictRows(DB, loc[p].doctor_id, s.date, s.time) # {}
        THEN Return(p)
        ELSE /\ Cardinality(appointments) + Cardinality(At("book_commit"))
                    < MaxAppts
             /\ Goto(p, "book_commit",
                     loc[p] @@ [date |-> s.date, time |-> s.time])
    /\ UNCHANGED <<patients, doctors, appointments>>

\* book_appointment: db.add(db_appt); db.commit().  What follows the commit
\* (db.refresh, the log line) writes nothing.
BookCommit(p) ==
    /\ pc[p] = "book_commit"
    /\ \E status \in Statuses, notes \in NotesIn :
        Write(InsertAppointment(DB,
            NewAppointmentRow(uuid4(appointments), loc[p].patient_id,
                              loc[p].doctor_id, loc[p].date, loc[p].time,
                              status, notes)))
    /\ Return(p)

\* reschedule_appointment: the query by id.  The session holds the row as
\* loaded from here on.
RescheduleApptQuery(p) ==
    /\ pc[p] = "idle"
    /\ \E appointment_id \in ApptIds :
        IF AppointmentRows(DB, appointment_id) = {}
        THEN Return(p)
        ELSE \E appt \in AppointmentRows(DB, appointment_id) :
                Goto(p, "reschedule_conflict",
                     [op |-> "reschedule", id |-> appt.id,
                      doctor_id |-> appt.doctor_id,
                      loaded_date |-> appt.date,
                      loaded_time |-> appt.time])
    /\ UNCHANGED <<patients, doctors, appointments>>

\* reschedule_appointment: the conflict query.
RescheduleConflictQuery(p) ==
    /\ pc[p] = "reschedule_conflict"
    /\ \E s \in Slots :
        IF RescheduleConflictRows(DB, loc[p].id, loc[p].doctor_id,
                                  s.date, s.time) # {}
        THEN Return(p)
        ELSE Goto(p, "reschedule_commit",
                  loc[p] @@ [date |-> s.date, time |-> s.time])
    /\ UNCHANGED <<patients, doctors, appointments>>

\* reschedule_appointment: appt.date = ..; appt.time = ..; db.commit()
RescheduleCommit(p) ==
    /\ pc[p] = "reschedule_commit"
    /\ \E appt \in AppointmentRows(DB, loc[p].id) :
        Write(UpdateAppointment(DB,
                RescheduleFlush(appt, loc[p].loaded_date, loc[p].loaded_time,
                                loc[p].date, loc[p].time)))
    /\ Return(p)

\* cancel_appointment: the query by id.
CancelQuery(p) ==
    /\ pc[p] = "idle"
    /\ \E appointment_id \in ApptIds :
        IF AppointmentRows(DB, appointment_id) = {}
        THEN Return(p)
        ELSE \E appt \in AppointmentRows(DB, appointment_id) :
                Goto(p, "cancel_commit",
                     [op |-> "cancel", id |-> appt.id,
                      loaded_status |-> appt.status])
    /\ UNCHANGED <<patients, doctors, appointments>>

\* cancel_appointment: appt.status = "cancelled"; db.commit()
CancelCommit(p) ==
    /\ pc[p] = "cancel_commit"
    /\ \E appt \in AppointmentRows(DB, loc[p].id) :
        Write(UpdateAppointment(DB, CancelFlush(appt, loc[p].loaded_status)))
    /\ Return(p)

\* A step of session p.
Step(p) ==
    \/ RegisterQuery(p)
    \/ RegisterCommit(p)
    \/ AddDoctorQuery(p)
    \/ AddDoctorCommit(p)
    \/ RemoveDoctorQuery(p)
    \/ RemoveDoctorCommit(p)
    \/ BookPatientQuery(p)
    \/ BookDoctorQuery(p)
    \/ BookConflictQuery(p)
    \/ BookCommit(p)
    \/ RescheduleApptQuery(p)
    \/ RescheduleConflictQuery(p)
    \/ RescheduleCommit(p)
    \/ CancelQuery(p)
    \/ CancelCommit(p)

Next == \E p \in Procs : Step(p)

Spec == Init /\ [][Next]_vars

(***************************************************************************)
(* SpecSerial: the same steps under the schedule in which requests run    *)
(* one after another, each from its first query to its commit or its       *)
(* error before the next starts.  Which session serves a request makes no  *)
(* difference then, so one session serves them all.                        *)
(***************************************************************************)
SerialProcs == {"c1"}

NextSerial == \E p \in SerialProcs : Step(p)

SpecSerial == Init /\ [][NextSerial]_vars

(***************************************************************************)
(* Properties.  What a request answers and what it leaves in the database  *)
(* is stated through the handler operators, applied to the database of     *)
(* the state.                                                              *)
(***************************************************************************)
\* No request is in progress.
Idle == \A p \in Procs : pc[p] = "idle"

Active(a) == a.status # "cancelled"

SameSlot(a, b) ==
    a.doctor_id = b.doctor_id /\ a.date = b.date /\ a.time = b.time

\* The non-cancelled appointments other than `id` at (doctor_id, date, time).
OthersAt(id, doctor_id, date, time) ==
    {b \in appointments :
        /\ b.id # id
        /\ b.status # "cancelled"
        /\ b.doctor_id = doctor_id /\ b.date = date /\ b.time = time}

Ids(rows) == {a.id : a \in rows}

\* Book payloads whose patient key and doctor name both resolve.
ResolvedBookPayloads ==
    {data \in BookPayloads :
        /\ PatientRows(DB, data.patient_name, data.patient_dob) # {}
        /\ DoctorRowsByName(DB, data.doctor_name) # {}}

\* C1: in every reachable state no two non-cancelled appointments share a
\* (doctor, date, time), also when Book calls for one slot run concurrently.
UniqueActiveSlot ==
    \A a, b \in appointments :
        (a.id # b.id /\ Active(a) /\ Active(b)) => ~SameSlot(a, b)

\* C2: a Book or Reschedule commit never puts a non-cancelled appointment
\* into a slot that another non-cancelled appointment holds when it commits:
\* of two calls that saw the slot free, at most one commits into it.
RaceFreeCommit ==
    [][\A a \in appointments' \ appointments :
          Active(a) =>
            \A b \in appointments' :
                (b.id # a.id /\ Active(b)) => ~SameSlot(a, b)]_vars

\* C3: in every reachable state at most one patient row carries a given
\* (name, dob), also when Register calls for one pair interleave.
UniquePatientIdentity ==
    \A a, b \in patients :
        (a.name = b.name /\ a.dob = b.dob) => a = b

\* C4: every appointment a step creates is created in status "scheduled",
\* whatever status the booking request carries.
BookCreatesScheduled ==
    [][\A a \in appointments' :
          a.id \notin Ids(appointments) => a.status = "scheduled"]_vars

\* Book payloads for slot (date, time) whose patient is registered in db
\* and whose doctor name resolves in db to the doctor doctor_id alone.
BookPayloadsFor(db, doctor_id, date, time) ==
    {data \in BookPayloads :
        /\ data.date = date /\ data.time = time
        /\ PatientRows(db, data.patient_name, data.patient_dob) # {}
        /\ DoctorRowsByName(db, data.doctor_name) # {}
        /\ \A d \in DoctorRowsByName(db, data.doctor_name) : d.id = doctor_id}

\* C5 as claimed: rescheduling any appointment, whatever its status, to its
\* own date and time never fails with SlotConflict.
RescheduleToOwnSlotNeverConflicts ==
    \A a \in appointments :
        \A r \in reschedule_appointment(DB, a.id, a.date, a.time) :
            r.out # "SlotConflict"

\* C5 as amended: rescheduling an appointment to its own date and time is
\* never refused on account of the appointment itself: it fails with
\* SlotConflict exactly when another non-cancelled appointment holds the
\* same (doctor, date, time), and succeeds otherwise.
\* The requests are ones that start while no other request is in progress
\* and run to their end uninterrupted.
RescheduleToOwnSlotExcludesSelf ==
    Idle =>
    \A a \in appointments :
        \A r \in reschedule_appointment(DB, a.id, a.date, a.time) :
            IF OthersAt(a.id, a.doctor_id, a.date, a.time) # {}
            THEN r.out = "SlotConflict"
            ELSE r.out = "ok"

\* Witness of C5: an active appointment whose move to its own slot
\* succeeds, beside a cancelled one whose move to its own slot is refused.
RescheduleToOwnSlotCases ==
    \E a, c \in appointments :
        /\ Active(a)
        /\ \A r \in reschedule_appointment(DB, a.id, a.date, a.time) :
                r.out = "ok"
        /\ ~Active(c)
        /\ \A r \in reschedule_appointment(DB, c.id, c.date, c.time) :
                r.out = "SlotConflict"

\* C6 as claimed: right after a successful Cancel of an appointment, a Book
\* by a registered patient for its doctor (still in the table) at its date
\* and time succeeds.
CancelFreesSlot ==
    \A a \in appointments :
        \A r \in cancel_appointment(DB, a.id) :
            r.out = "ok" =>
                \A data \in BookPayloadsFor(r.db, a.doctor_id, a.date, a.time) :
                    \A r2 \in book_appointment(r.db, data) : r2.out = "ok"

\* C6 as amended: right after a successful Cancel of an appointment, such a
\* Book is never refused on account of the cancelled appointment: it fails
\* with SlotConflict exactly when another non-cancelled appointment holds
\* the slot, and succeeds otherwise.
\* The requests are ones that start while no other request is in progress
\* and run to their end uninterrupted.
CancelFreesSlotOfCancelled ==
    Idle =>
    \A a \in appointments :
        \A r \in cancel_appointment(DB, a.id) :
            /\ r.out = "ok"
            /\ \A data \in BookPayloadsFor(r.db, a.doctor_id, a.date, a.time) :
                \A r2 \in book_appointment(r.db, data) :
                    IF OthersAt(a.id, a.doctor_id, a.date, a.time) # {}
                    THEN r2.out = "SlotConflict"
                    ELSE r2.out = "ok"

\* Witness of C6: an active appointment is cancelled and the Book that
\* follows for its slot succeeds.
CancelThenBookSucceeds ==
    \E a \in appointments :
        /\ Active(a)
        /\ \E r \in cancel_appointment(DB, a.id) :
            /\ r.out = "ok"
            /\ \E data \in BookPayloadsFor(r.db, a.doctor_id, a.date, a.time) :
                \E r2 \in book_appointment(r.db, data) : r2.out = "ok"

\* C7: an appointment whose status is "cancelled" is still there with
\* status "cancelled" after every step.
CancelledStaysCancelled ==
    [][\A a \in appointments :
          a.status = "cancelled" =>
            \E b \in appointments' : b.id = a.id /\ b.status = "cancelled"]_vars

\* Witness of C7: a cancelled appointment that has been moved since it was
\* booked or whose slot has been booked again.
CancelledAndRebooked ==
    \E a, b \in appointments :
        a.status = "cancelled" /\ Active(b) /\ a.id < b.id /\ SameSlot(a, b)

\* C8: a Book whose patient key or doctor name matches no row fails with
\* NotFound and leaves every table as it was, whether or not the requested
\* slot is occupied.
\* The requests are ones that start while no other request is in progress
\* and run to their end uninterrupted.
BookUnknownKeyNotFound ==
    Idle =>
    \A data \in BookPayloads \ ResolvedBookPayloads :
        /\ book_appointment(DB, data) # {}
        /\ \A r \in book_appointment(DB, data) :
                r.out = "NotFound" /\ r.db = DB

\* Witness of C8: a Book by an unregistered patient for an occupied slot of
\* an existing doctor, answered NotFound.
BookUnknownPatientOccupiedSlot ==
    \E data \in BookPayloads :
        /\ PatientRows(DB, data.patient_name, data.patient_dob) = {}
        /\ \E doctor \in DoctorRowsByName(DB, data.doctor_name) :
                OthersAt(0, doctor.id, data.date, data.time) # {}
        /\ \A r \in book_appointment(DB, data) : r.out = "NotFound"

\* C9: a Book whose patient and doctor resolve fails with SlotConflict
\* exactly when a non-cancelled appointment holds the requested (doctor,
\* date, time); a refused Book leaves every table as it was; otherwise the
\* Book succeeds and adds one appointment, changing nothing else.
\* The requests are ones that start while no other request is in progress
\* and run to their end uninterrupted.
BookConflictIffOccupied ==
    Idle =>
    \A data \in ResolvedBookPayloads :
        LET named == DoctorRowsByName(DB, data.doctor_name)
            occupied(doctor) ==
                OthersAt(0, doctor.id, data.date, data.time) # {}
        IN  /\ book_appointment(DB, data) # {}
            /\ \A r \in book_appointment(DB, data) :
                /\ r.out \in {"ok", "SlotConflict"}
                /\ r.out = "SlotConflict" =>
                    /\ r.db = DB
                    /\ \E doctor \in named : occupied(doctor)
                /\ r.out = "ok" =>
                    /\ \E doctor \in named : ~occupied(doctor)
                    /\ appointments \subseteq r.db.appointments
                    /\ Cardinality(r.db.appointments) =
                            Cardinality(appointments) + 1
                    /\ r.db.patients = patients
                    /\ r.db.doctors = doctors

\* Witness of C9: a Book with resolved patient and doctor that is refused
\* with SlotConflict, and one that succeeds, in the same state.
BookRefusedAndAccepted ==
    /\ \E data \in ResolvedBookPayloads :
            \E r \in book_appointment(DB, data) : r.out = "SlotConflict"
    /\ \E data \in ResolvedBookPayloads :
            \E r \in book_appointment(DB, data) : r.out = "ok"

\* C10: Reschedule fails with NotFound when no appointment has the id and
\* with SlotConflict when a non-cancelled appointment other than the one
\* moved holds (its doctor, new date, new time); a failed Reschedule leaves
\* every appointment as it was.
\* The requests are ones that start while no other request is in progress
\* and run to their end uninterrupted.
RescheduleFailures ==
    Idle =>
    \A id \in ApptIds, s \in Slots :
        /\ reschedule_appointment(DB, id, s.date, s.time) # {}
        /\ \A r \in reschedule_appointment(DB, id, s.date, s.time) :
            /\ id \notin Ids(appointments) => r.out = "NotFound"
            /\ \A a \in appointments :
                (a.id = id /\ OthersAt(id, a.doctor_id, s.date, s.time) # {})
                    => r.out = "SlotConflict"
            /\ r.out \in {"NotFound", "SlotConflict"} => r.db = DB

\* Witness of C10: a Reschedule refused with SlotConflict and one refused
\* with NotFound.
RescheduleRefused ==
    /\ \E id \in ApptIds, s \in Slots :
        \E r \in reschedule_appointment(DB, id, s.date, s.time) :
            r.out = "SlotConflict"
    /\ \E id \in ApptIds, s \in Slots :
        \E r \in reschedule_appointment(DB, id, s.date, s.time) :
            r.out = "NotFound"

\* C11: after a successful Reschedule of a non-cancelled appointment from
\* its slot to another slot of its doctor, the appointment holds the new
\* slot and the old one is vacated: the Book that follows by a registered
\* patient for the old slot succeeds, and the Book that follows for the new
\* slot fails with SlotConflict.
\* The requests are ones that start while no other request is in progress
\* and run to their end uninterrupted.
RescheduleVacatesSlot ==
    Idle =>
    \A a \in appointments, s \in Slots :
        (Active(a) /\ (s.date # a.date \/ s.time # a.time)) =>
            \A r \in reschedule_appointment(DB, a.id, s.date, s.time) :
                r.out = "ok" =>
                    /\ \E b \in r.db.appointments :
                        /\ b.id = a.id /\ Active(b)
                        /\ b.doctor_id = a.doctor_id
                        /\ b.date = s.date /\ b.time = s.time
                    /\ \A data \in BookPayloadsFor(r.db, a.doctor_id,
                                                   a.date, a.time) :
                        \A r2 \in book_appointment(r.db, data) :
                            r2.out = "ok"
                    /\ \A data \in BookPayloadsFor(r.db, a.doctor_id,
                                                   s.date, s.time) :
                        \A r2 \in book_appointment(r.db, data) :
                            r2.out = "SlotConflict"

\* Witness of C11: a non-cancelled appointment whose move to another slot
\* succeeds, with a registered patient and the doctor in the table, so that
\* both following Books resolve.
RescheduledAndRebookable ==
    \E a \in appointments, s \in Slots :
        /\ Active(a)
        /\ s.date # a.date \/ s.time # a.time
        /\ \E r \in reschedule_appointment(DB, a.id, s.date, s.time) :
            /\ r.out = "ok"
            /\ \E data \in BookPayloadsFor(r.db, a.doctor_id, a.date, a.time) :
                \E r2 \in book_appointment(r.db, data) : r2.out = "ok"
            /\ \E data \in BookPayloadsFor(r.db, a.doctor_id, s.date, s.time) :
                \E r2 \in book_appointment(r.db, data) :
                    r2.out = "SlotConflict"

\* C12: Register fails with Conflict when a patient row with the same
\* (name, dob) exists, and then leaves the patients as they were; otherwise
\* it succeeds and adds exactly one patient row, carrying the request's
\* name and dob and an id that no patient row already in the table carries.
\* The requests are ones that start while no other request is in progress
\* and run to their end uninterrupted.
RegisterConflictOrFresh ==
    Idle =>
    \A patient \in PatientPayloads :
        /\ register_patient(DB, patient) # {}
        /\ \A r \in register_patient(DB, patient) :
            IF \E q \in patients :
                    q.name = patient.name /\ q.dob = patient.dob
            THEN r.out = "Conflict" /\ r.db = DB
            ELSE /\ r.out = "ok"
                 /\ patients \subseteq r.db.patients
                 /\ Cardinality(r.db.patients) = Cardinality(patients) + 1
                 /\ \A q \in r.db.patients \ patients :
                        /\ q.id = r.id
                        /\ q.id \notin Ids(patients)
                        /\ q.name = patient.name /\ q.dob = patient.dob
                 /\ r.db.appointments = appointments
                 /\ r.db.doctors = doctors

\* Witness of C12: with a patient in the table, one Register is refused
\* with Conflict and another succeeds.
RegisterRefusedAndAccepted ==
    /\ patients # {}
    /\ \E patient \in PatientPayloads :
            \E r \in register_patient(DB, patient) : r.out = "Conflict"
    /\ \E patient \in PatientPayloads :
            \E r \in register_patient(DB, patient) : r.out = "ok"

Dates == {s.date : s \in Slots}

\* C13: the listing of a doctor's appointments on a date answers NotFound
\* when no doctor carries the name, and otherwise returns exactly the
\* non-cancelled appointments of the doctor resolved on that date: each of
\* them appears, and an appointment that has just been cancelled does not.
\* The requests are ones that start while no other request is in progress
\* and run to their end uninterrupted.
ListActiveExact ==
    Idle =>
    \A doctor_name \in DoctorNames, query_date \in Dates :
        /\ get_doctor_appointments(DB, doctor_name, query_date) # {}
        /\ \A r \in get_doctor_appointments(DB, doctor_name, query_date) :
            IF \A d \in doctors : d.name # doctor_name
            THEN r.out = "NotFound"
            ELSE /\ r.out = "ok"
                 /\ \E d \in doctors :
                    /\ d.name = doctor_name
                    /\ r.rows = {a \in appointments :
                                    /\ a.doctor_id = d.id
                                    /\ a.date = query_date
                                    /\ Active(a)}
        /\ \A a \in appointments :
            \A c \in cancel_appointment(DB, a.id) :
                \A r \in get_doctor_appointments(c.db, doctor_name,
                                                 query_date) :
                    a.id \notin Ids(r.rows)

\* Witness of C13: a doctor with a cancelled and a non-cancelled
\* appointment on one date, whose listing for that date holds the
\* non-cancelled one alone.
ListOmitsCancelled ==
    \E d \in doctors, a, b \in appointments :
        /\ a.doctor_id = d.id /\ b.doctor_id = d.id
        /\ a.date = b.date
        /\ ~Active(a) /\ Active(b)
        /\ \E r \in get_doctor_appointments(DB, d.name, a.date) :
                r.out = "ok" /\ r.rows = {b}

\* C14: a successful Reschedule changes the date and time of the named
\* appointment and nothing else: its id, patient, doctor, status (whatever
\* it is) and notes are as before, every other appointment is as before,
\* no appointment is added or removed, and the patients are as before.
\* The requests are ones that start while no other request is in progress
\* and run to their end uninterrupted.
RescheduleFrame ==
    Idle =>
    \A id \in ApptIds, s \in Slots :
        \A r \in reschedule_appointment(DB, id, s.date, s.time) :
            r.out = "ok" =>
                /\ Cardinality(r.db.appointments) = Cardinality(appointments)
                /\ \A a \in appointments :
                    \E b \in r.db.appointments :
                        /\ b.id = a.id
                        /\ b.patient_id = a.patient_id
                        /\ b.doctor_id = a.doctor_id
                        /\ b.status = a.status
                        /\ b.notes = a.notes
                        /\ IF a.id = id
                           THEN b.date = s.date /\ b.time = s.time
                           ELSE b = a
                /\ r.db.patients = patients
                /\ r.db.doctors = doctors

\* Witness of C14: a cancelled and a completed appointment, each of which
\* a Reschedule moves to another slot.
RescheduleMovesAnyStatus ==
    \E a, b \in appointments :
        /\ a.status = "cancelled" /\ b.status = "completed"
        /\ \E s \in Slots :
            /\ s.date # a.date \/ s.time # a.time
            /\ \E r \in reschedule_appointment(DB, a.id, s.date, s.time) :
                    r.out = "ok"
        /\ \E s \in Slots :
            /\ s.date # b.date \/ s.time # b.time
            /\ \E r \in reschedule_appointment(DB, b.id, s.date, s.time) :
                    r.out = "ok"

\* C15: Cancel of an id that no appointment carries fails with NotFound and
\* changes nothing; Cancel of an existing appointment succeeds whatever its
\* status, "cancelled" included, leaving it with status "cancelled" and its
\* date, time, patient and doctor as before; a second Cancel of the same
\* appointment right after succeeds and leaves the database as the first
\* left it.
\* The requests are ones that start while no other request is in progress
\* and run to their end uninterrupted.
CancelIdempotent ==
    Idle =>
    \A id \in ApptIds :
        /\ cancel_appointment(DB, id) # {}
        /\ \A r \in cancel_appointment(DB, id) :
            IF id \notin Ids(appointments)
            THEN r.out = "NotFound" /\ r.db = DB
            ELSE /\ r.out = "ok"
                 /\ \E a \in appointments, b \in r.db.appointments :
                        /\ a.id = id /\ b.id = id
                        /\ b.status = "cancelled"
                        /\ b.date = a.date /\ b.time = a.time
                        /\ b.patient_id = a.patient_id
                        /\ b.doctor_id = a.doctor_id
                 /\ Ids(r.db.appointments) = Ids(appointments)
                 /\ cancel_appointment(r.db, id) # {}
                 /\ \A r2 \in cancel_appointment(r.db, id) :
                        r2.out = "ok" /\ r2.db = r.db

\* Witness of C15: an id that no appointment carries, an appointment
\* already cancelled whose Cancel succeeds, and a non-cancelled one whose
\* Cancel succeeds.
CancelOfCancelledSucceeds ==
    /\ \E id \in ApptIds \ Ids(appointments) :
            \E r \in cancel_appointment(DB, id) : r.out = "NotFound"
    /\ \E a, b \in appointments :
        /\ a.status = "cancelled" /\ Active(b)
        /\ \E r \in cancel_appointment(DB, a.id) : r.out = "ok"
        /\ \E r \in cancel_appointment(DB, b.id) : r.out = "ok"

\* C16: no step removes an appointment: every appointment is still there
\* after the step, with its id, patient and doctor, so the set of
\* appointment ids only grows; a step that changes an appointment's status
\* sets it to "cancelled" and keeps its date and time.
NoAppointmentRemoved ==
    [][\A a \in appointments :
          \E b \in appointments' :
            /\ b.id = a.id
            /\ b.patient_id = a.patient_id
            /\ b.doctor_id = a.doctor_id
            /\ b.status # a.status =>
                /\ b.status = "cancelled"
                /\ b.date = a.date /\ b.time = a.time]_vars

\* Witness of C16: a cancelled appointment and another appointment are in
\* the table after the doctor of the cancelled one has been removed.
CancelledKeptAfterDoctorRemoved ==
    \E a, b \in appointments :
        /\ a.id # b.id
        /\ a.status = "cancelled"
        /\ DoctorRowsById(DB, a.doctor_id) = {}

\* C17: only "cancelled" exempts an appointment from slot conflicts: while
\* an appointment of any other status, "completed" included, holds a
\* (doctor, date, time), a Book with resolved patient and doctor for that
\* slot and a Reschedule of another appointment of that doctor into it fail
\* with SlotConflict; a slot holding cancelled appointments alone refuses
\* neither.
\* The requests are ones that start while no other request is in progress
\* and run to their end uninterrupted.
OnlyCancelledExempt ==
    Idle =>
    \A a \in appointments :
        LET here == BookPayloadsFor(DB, a.doctor_id, a.date, a.time)
            others == {b \in appointments :
                        b.id # a.id /\ b.doctor_id = a.doctor_id}
            blocked == Active(a)
                        \/ OthersAt(a.id, a.doctor_id, a.date, a.time) # {}
        IN  /\ \A data \in here :
                \A r \in book_appointment(DB, data) :
                    IF blocked THEN r.out = "SlotConflict"
                               ELSE r.out = "ok"
            /\ \A b \in others :
                \A r \in reschedule_appointment(DB, b.id, a.date, a.time) :
                    IF Active(a)
                        \/ OthersAt(b.id, a.doctor_id, a.date, a.time) # {}
                    THEN r.out = "SlotConflict"
                    ELSE r.out = "ok"

\* Witness of C17: a completed appointment holds a slot; a Book by a
\* registered patient for the slot and a Reschedule of another appointment
\* of the doctor into it are both refused with SlotConflict.
CompletedBlocksSlot ==
    \E a, b \in appointments :
        /\ a.status = "completed"
        /\ b.id # a.id /\ b.doctor_id = a.doctor_id
        /\ b.date # a.date \/ b.time # a.time
        /\ \E r \in reschedule_appointment(DB, b.id, a.date, a.time) :
                r.out = "SlotConflict"
        /\ \E data \in BookPayloadsFor(DB, a.doctor_id, a.date, a.time) :
            \E r \in book_appointment(DB, data) : r.out = "SlotConflict"

\* C18: in every reachable state every appointment's doctor_id is the id of
\* a row of the doctors table and its patient_id the id of a row of the
\* patients table, also after add_doctor and remove_doctor have run.
ReferentialIntegrity ==
    \A a \in appointments :
        /\ DoctorRowsById(DB, a.doctor_id) # {}
        /\ \E q \in patients : q.id = a.patient_id

\* C19: when every request runs whole, with no other request interleaved,
\* then after any sequence of Register, add_doctor, remove_doctor, Book
\* (with any status in the request), Reschedule (of an appointment of any
\* status) and Cancel, each (doctor, date, time) holds at most one
\* non-cancelled appointment.
AtomicSlotHoldsAtMostOne ==
    \A doctor_id \in DoctorIds, s \in Slots :
        Cardinality(OthersAt(0, doctor_id, s.date, s.time)) <= 1

\* Witness of C19: a slot holds a completed appointment together with a
\* cancelled one that was booked after it, which a Book carrying status
\* "cancelled" or the Reschedule of a cancelled appointment put there.
CancelledBesideCompleted ==
    \E a, b \in appointments :
        /\ SameSlot(a, b)
        /\ a.status = "cancelled" /\ b.status = "completed"
        /\ a.id > b.id

====
